---- MODULE Spec2Model ----
(***************************************************************************)
(* Package identity core of arch-zst-backup: filename parsing              *)
(* (modules/package_parser.py), version comparison                         *)
(* (modules/version_comparator.py), grouping and duplicate resolution      *)
(* (business/package_deduplicator.py), the confirmation-gated deletion     *)
(* flows (business/package_deleter.py, cache_manager_operations.py), the   *)
(* saved scan results (business/scan_result_manager.py) and the backup of  *)
(* newer cache packages (business/backup_service.py).                      *)
(*                                                                         *)
(* A Python str is a sequence of one-character strings; a Python dict is a *)
(* function whose DOMAIN is the set of keys that are present.              *)
(***************************************************************************)
EXTENDS Integers, Sequences, FiniteSets, TLC

VARIABLES
    packages,       \* the page's package list (backup_manager.packages / cache_manager.packages)
    grouped,        \* result of group_packages_by_name_and_arch: sequence of [key, pkgs] in insertion order
    skipped_count,  \* second component of group_packages_by_name_and_arch's result
    to_delete,      \* the deletion set (a list)
    confirm,        \* answer of the confirmation dialog: "none", "yes", "no"
    deleted,        \* the packages delete_file has been called for, in call order
    success_count,  \* execute_deletion's counter
    failed_files,   \* execute_deletion's failed list
    del_idx,        \* position of the deletion loop in to_delete
    disk,           \* the package files present on disk (their fullpath)
    handler,        \* the handler that runs: "backup" (BackupManagerOperations) or "cache" (CacheManagerOperations)
    pc,             \* position in the handler
    cmpArgs,        \* the records handed to compare_versions
    cmpRes,         \* cmpRes[i][j] = compare_versions(cmpArgs[i], cmpArgs[j])
    latest,         \* result of PackageDeduplicator.find_latest_package
    vc_latest,      \* result of VersionComparator.find_latest
    filename,       \* the str handed to PackageParser.parse_filename
    parsed,         \* result of parse_filename
    scan_file,      \* content of existing_packages.json
    loaded,         \* result of ScanResultManager.load_scan_results
    raised,         \* the exception that left the last call of the core, "none" when it returned
    existing_packages,   \* backup_newer_versions: the list read from existing_packages.json
    processed_packages,  \* backup_newer_versions: the names handled so far
    copied,         \* backup_newer_versions: the packages handed to copy_file
    upd_idx         \* backup_newer_versions: position in updated_packages

vars == <<packages, grouped, skipped_count, to_delete, confirm, deleted,
          success_count, failed_files, del_idx, disk, handler, pc, cmpArgs, cmpRes, latest, vc_latest,
          filename, parsed, scan_file, loaded, raised,
          existing_packages, processed_packages, copied, upd_idx>>

----------------------------------------------------------------------------
(* Bounds *)

MaxVerLen == 2      \* longest pkgver string of the comparator universe
MaxOrderLen == 2    \* longest pkgver string of the three-record universe
MaxPkgs == 3        \* longest package list
MaxGroup == 4       \* longest group handed to find_latest_package
MaxUpdated == 3     \* longest updated_packages list
MaxExisting == 2    \* longest existing_packages list

----------------------------------------------------------------------------
(* Python str primitives *)

Digits == {"0", "1", "2", "3", "4", "5", "6", "7", "8", "9"}

\* SUPERSCRIPT TWO (U+00B2): str.isdigit() accepts it, int() and \d do not
Sup2 == "²"

\* code points of the characters used (str comparison is by code point)
Ord ==
    ("+" :> 43) @@ ("-" :> 45) @@ ("." :> 46) @@
    ("0" :> 48) @@ ("1" :> 49) @@ ("2" :> 50) @@ ("3" :> 51) @@ ("4" :> 52) @@
    ("5" :> 53) @@ ("6" :> 54) @@ ("7" :> 55) @@ ("8" :> 56) @@ ("9" :> 57) @@
    (":" :> 58) @@ ("_" :> 95) @@ ("a" :> 97) @@ ("b" :> 98) @@ ("x" :> 120) @@
    (Sup2 :> 178)

\* all strings over chars of length at most n
Strs(chars, n) == UNION {[1..k -> chars] : k \in 0..n}

\* s > t on Python str
RECURSIVE StrGT(_, _)
StrGT(s, t) ==
    IF s = <<>> THEN FALSE
    ELSE IF t = <<>> THEN TRUE
    ELSE IF Head(s) = Head(t) THEN StrGT(Tail(s), Tail(t))
    ELSE Ord[Head(s)] > Ord[Head(t)]

\* s.split(sep) for a one-character separator
RECURSIVE Split(_, _)
Split(s, sep) ==
    IF \A i \in 1..Len(s) : s[i] # sep THEN <<s>>
    ELSE LET i == CHOOSE j \in 1..Len(s) :
                      s[j] = sep /\ \A k \in 1..(j-1) : s[k] # sep
         IN <<SubSeq(s, 1, i-1)>> \o Split(SubSeq(s, i+1, Len(s)), sep)

\* s.isdigit()
IsDigit(s) == s # <<>> /\ \A i \in 1..Len(s) : s[i] \in Digits \cup {Sup2}

\* \d+ over the whole of s
IsDecimal(s) == s # <<>> /\ \A i \in 1..Len(s) : s[i] \in Digits

\* int(s) raises ValueError
IntRaises(s) == ~IsDecimal(s)

\* int(s) for an s of decimal digits
RECURSIVE ToInt(_)
ToInt(s) ==
    IF s = <<>> THEN 0
    ELSE 10 * ToInt(SubSeq(s, 1, Len(s)-1)) + (Ord[s[Len(s)]] - 48)

----------------------------------------------------------------------------
(* VersionComparator.compare_versions *)

Ret(v) == [exc |-> "none", ret |-> v]
Raise(e) == [exc |-> e, ret |-> 0]

\* a comparison in which components of the same number tie
CompareComponent_NumericTie(v1, v2) ==
    IF IsDigit(v1) /\ IsDigit(v2)
    THEN (IF ToInt(v1) > ToInt(v2) THEN 1 ELSE IF ToInt(v1) < ToInt(v2) THEN -1 ELSE 0)
    ELSE (IF StrGT(v1, v2) THEN 1 ELSE -1)

\* one pair of components that differ: lines 30-35 / 46-49
CompareComponent(v1, v2) ==
    IF IsDigit(v1) /\ IsDigit(v2)
    THEN (IF ToInt(v1) > ToInt(v2) THEN 1 ELSE -1)
    ELSE (IF StrGT(v1, v2) THEN 1 ELSE -1)

\* lines 32-33 / 47-48: both components pass isdigit() and int() rejects one
ComponentRaises(v1, v2) == IsDigit(v1) /\ IsDigit(v2) /\ (IntRaises(v1) \/ IntRaises(v2))

Min(a, b) == IF a < b THEN a ELSE b

\* the zip loop without the length test of lines 38-39
CompareParts_NoLength(l1, l2) ==
    LET n == Min(Len(l1), Len(l2))
        diff == {i \in 1..n : l1[i] # l2[i]}
    IN IF diff # {}
       THEN LET i == CHOOSE j \in diff : \A k \in diff : j <= k
            IN CompareComponent(l1[i], l2[i])
       ELSE 0

\* the zip loop followed by the length test; 0 when the step ties
CompareParts(l1, l2) ==
    LET n == Min(Len(l1), Len(l2))
        diff == {i \in 1..n : l1[i] # l2[i]}
    IN IF diff # {}
       THEN LET i == CHOOSE j \in diff : \A k \in diff : j <= k
            IN CompareComponent(l1[i], l2[i])
       ELSE IF Len(l1) # Len(l2)
       THEN (IF Len(l1) > Len(l2) THEN 1 ELSE -1)
       ELSE 0

\* the first pair of components that differ makes int() raise
PartsRaise(l1, l2) ==
    LET n == Min(Len(l1), Len(l2))
        diff == {i \in 1..n : l1[i] # l2[i]}
    IN /\ diff # {}
       /\ LET i == CHOOSE j \in diff : \A k \in diff : j <= k
          IN ComponentRaises(l1[i], l2[i])

\* an epoch step that compares the epochs as integers
CompareEpoch_Numeric(e1, e2) == IF ToInt(e1) > ToInt(e2) THEN 1 ELSE -1

\* lines 22-23: the epochs differ
CompareEpoch(e1, e2) == IF StrGT(e1, e2) THEN 1 ELSE -1

compare_versions(pkg1, pkg2) ==
    IF "epoch" \notin DOMAIN pkg1 \/ "epoch" \notin DOMAIN pkg2
    THEN Raise("KeyError")
    ELSE IF pkg1["epoch"] # pkg2["epoch"]
    THEN Ret(CompareEpoch(pkg1["epoch"], pkg2["epoch"]))
    ELSE IF "pkgver" \notin DOMAIN pkg1 \/ "pkgver" \notin DOMAIN pkg2
    THEN Raise("KeyError")
    ELSE IF PartsRaise(Split(pkg1["pkgver"], "."), Split(pkg2["pkgver"], "."))
    THEN Raise("ValueError")
    ELSE LET v == CompareParts(Split(pkg1["pkgver"], "."), Split(pkg2["pkgver"], "."))
         IN IF v # 0 THEN Ret(v)
            ELSE IF "relver" \notin DOMAIN pkg1 \/ "relver" \notin DOMAIN pkg2
            THEN Raise("KeyError")
            ELSE IF PartsRaise(Split(pkg1["relver"], "."), Split(pkg2["relver"], "."))
            THEN Raise("ValueError")
            ELSE Ret(CompareParts(Split(pkg1["relver"], "."), Split(pkg2["relver"], ".")))

----------------------------------------------------------------------------
(* Input universes *)

\* marks a key that is absent from a dict (no str has this character)
None == <<"None">>

\* a dict with the keys whose value is not None
MkPkg(fields) == [k \in {f \in DOMAIN fields : fields[f] # None} |-> fields[k]]

VerChars == {"0", "1", "a", "."}
CmpEpochs == {<<"9">>, <<"1", "0">>, None}
CmpVers == Strs(VerChars, MaxVerLen) \cup {<<Sup2>>, None}
CmpRels == {<<"1">>, <<"0", "1">>, None}

CmpRecs ==
    {MkPkg([epoch |-> e, pkgver |-> v, relver |-> r]) :
        e \in CmpEpochs, v \in CmpVers, r \in CmpRels}

OrderChars == {"0", "1", "2", "a"}
OrderRecs ==
    {[epoch |-> <<"0">>, pkgver |-> v, relver |-> <<"1">>] :
        v \in Strs(OrderChars, MaxOrderLen) \ {<<>>}}

----------------------------------------------------------------------------
(* dict helpers *)

\* pkg.get(k)
Get(pkg, k) == IF k \in DOMAIN pkg THEN pkg[k] ELSE None

\* truth value of a str or None
Truthy(v) == v # None /\ v # <<>>

\* a or b
Or(a, b) == IF Truthy(a) THEN a ELSE b

----------------------------------------------------------------------------
(* PackageDeduplicator *)

\* grouped.setdefault(key, []).append(pkg) on an insertion-ordered dict
SetDefaultAppend(g, key, pkg) ==
    IF \E i \in 1..Len(g) : g[i].key = key
    THEN [i \in 1..Len(g) |->
            IF g[i].key = key THEN [key |-> key, pkgs |-> Append(g[i].pkgs, pkg)]
            ELSE g[i]]
    ELSE Append(g, [key |-> key, pkgs |-> <<pkg>>])

\* the key a record is filed under: lines 39-47
GroupKey(pkg) == <<Or(Get(pkg, "pkgname"), Get(pkg, "name")), Get(pkg, "arch")>>

\* a test of line 42 that looks at the name only
GroupSkips_NameOnly(pkg) == ~Truthy(Or(Get(pkg, "pkgname"), Get(pkg, "name")))

\* lines 42-45: the record is skipped
GroupSkips(pkg) == ~Truthy(GroupKey(pkg)[1]) \/ ~Truthy(GroupKey(pkg)[2])

RECURSIVE GroupLoop(_, _, _)
GroupLoop(pkgs, g, skipped) ==
    IF pkgs = <<>> THEN [grouped |-> g, skipped_count |-> skipped]
    ELSE IF GroupSkips(Head(pkgs))
    THEN GroupLoop(Tail(pkgs), g, skipped + 1)
    ELSE GroupLoop(Tail(pkgs), SetDefaultAppend(g, GroupKey(Head(pkgs)), Head(pkgs)), skipped)

group_packages_by_name_and_arch(pkgs) == GroupLoop(pkgs, <<>>, 0)

\* a test of line 74 that looks at the version only
LacksVersion_VersionOnly(pkg) == ~Truthy(Or(Get(pkg, "pkgver"), Get(pkg, "version")))

\* lines 68-76: the record is left out of valid_pkgs
LacksVersion(pkg) ==
    \/ ~Truthy(Or(Get(pkg, "pkgver"), Get(pkg, "version")))
    \/ ~Truthy(Or(Get(pkg, "relver"), Get(pkg, "pkgrel")))

\* lines 79-85: pkg_for_compare
CompareObj(pkg) ==
    [pkgname |-> Or(Get(pkg, "pkgname"), Get(pkg, "name")),
     pkgver  |-> Or(Get(pkg, "pkgver"), Get(pkg, "version")),
     relver  |-> Or(Get(pkg, "relver"), Get(pkg, "pkgrel")),
     epoch   |-> Or(Get(pkg, "epoch"), <<"0">>),
     arch    |-> Get(pkg, "arch")]

\* lines 65-91
ValidPkgs(pkgs) ==
    LET keep == SelectSeq(pkgs, LAMBDA p : ~LacksVersion(p))
    IN [i \in 1..Len(keep) |-> [original |-> keep[i], compare_obj |-> CompareObj(keep[i])]]

\* line 104: the candidate replaces latest
Replaces(pkg, cur) == compare_versions(pkg.compare_obj, cur.compare_obj).ret > 0

\* lines 97-106: the fold over valid_pkgs[1:]
RECURSIVE LatestFold(_, _)
LatestFold(rest, cur) ==
    IF rest = <<>> THEN cur
    ELSE LatestFold(Tail(rest), IF Replaces(Head(rest), cur) THEN Head(rest) ELSE cur)

find_latest_package(pkgs) ==
    IF pkgs = <<>> THEN None
    ELSE LET valid_pkgs == ValidPkgs(pkgs)
         IN IF valid_pkgs = <<>> THEN None
            ELSE LatestFold(Tail(valid_pkgs), Head(valid_pkgs)).original

\* the exception of a comparison of line 101 leaves the fold; "none" when
\* every comparison returns
RECURSIVE LatestFoldExc(_, _)
LatestFoldExc(rest, cur) ==
    IF rest = <<>> THEN "none"
    ELSE LET c == compare_versions(Head(rest).compare_obj, cur.compare_obj)
         IN IF c.exc # "none" THEN c.exc
            ELSE LatestFoldExc(Tail(rest), IF c.ret > 0 THEN Head(rest) ELSE cur)

\* the exception that leaves find_latest_package, "none" when it returns
find_latest_package_exc(pkgs) ==
    IF pkgs = <<>> THEN "none"
    ELSE LET valid_pkgs == ValidPkgs(pkgs)
         IN IF valid_pkgs = <<>> THEN "none"
            ELSE LatestFoldExc(Tail(valid_pkgs), Head(valid_pkgs))

\* VersionComparator.find_latest: lines 68-74, on the raw records
RECURSIVE FindLatestFold(_, _)
FindLatestFold(rest, cur) ==
    IF rest = <<>> THEN Ret(cur)
    ELSE LET c == compare_versions(Head(rest), cur)
         IN IF c.exc # "none" THEN c
            ELSE FindLatestFold(Tail(rest), IF c.ret > 0 THEN Head(rest) ELSE cur)

find_latest(pkgs) ==
    IF pkgs = <<>> THEN Ret(None)
    ELSE FindLatestFold(Tail(pkgs), Head(pkgs))

\* a comparison that never recognises the latest record
NotLatest_Always(pkg, lat) == TRUE

\* a comparison by the version fields instead of the whole record
NotLatest_ByVersion(pkg, lat) == CompareObj(pkg) # CompareObj(lat)

\* line 136: pkg != latest, the == of dict
NotLatest(pkg, lat) == pkg # lat

\* the loop of lines 135-139 without the None test of lines 127-129
GroupDeletions_NoNoneCheck(pkgs) ==
    IF Len(pkgs) > 1
    THEN LET lat == find_latest_package(pkgs)
         IN IF lat = None THEN pkgs
            ELSE SelectSeq(pkgs, LAMBDA p : NotLatest(p, lat))
    ELSE <<>>

\* the loop of lines 135-139 applied to every group, whatever its size and latest
GroupDeletions_NoGuards(pkgs) ==
    LET lat == find_latest_package(pkgs)
    IN IF lat = None THEN pkgs
       ELSE SelectSeq(pkgs, LAMBDA p : NotLatest(p, lat))

\* lines 122-144 for one group; the except of line 142 skips the group
GroupDeletions(pkgs) ==
    IF Len(pkgs) > 1
    THEN IF find_latest_package_exc(pkgs) # "none" THEN <<>>
         ELSE LET lat == find_latest_package(pkgs)
              IN IF lat = None THEN <<>>
                 ELSE SelectSeq(pkgs, LAMBDA p : NotLatest(p, lat))
    ELSE <<>>

RECURSIVE DeleteLoop(_)
DeleteLoop(g) ==
    IF g = <<>> THEN <<>>
    ELSE GroupDeletions(Head(g).pkgs) \o DeleteLoop(Tail(g))

find_packages_to_delete(g) == DeleteLoop(g)

----------------------------------------------------------------------------
(* CacheManagerOperations.deduplicate_packages: grouping and selection *)

\* lines 115-125: packages_by_name
RECURSIVE CacheGroupLoop(_, _)
CacheGroupLoop(pkgs, g) ==
    IF pkgs = <<>> THEN g
    ELSE IF ~Truthy(Get(Head(pkgs), "pkgname"))
    THEN CacheGroupLoop(Tail(pkgs), g)
    ELSE CacheGroupLoop(Tail(pkgs), SetDefaultAppend(g, Get(Head(pkgs), "pkgname"), Head(pkgs)))

\* lines 136-143: the record is left out of valid_pkgs
CacheLacksVersion(pkg) ==
    \/ ~Truthy(Get(pkg, "pkgver"))
    \/ ~Truthy(Get(pkg, "relver"))
    \/ ~Truthy(Get(pkg, "arch"))

\* lines 146-158
CacheValidPkgs(name, pkgs) ==
    LET keep == SelectSeq(pkgs, LAMBDA p : ~CacheLacksVersion(p))
    IN [i \in 1..Len(keep) |->
          [original |-> keep[i],
           compare_obj |-> [pkgname |-> name,
                            pkgver  |-> Get(keep[i], "pkgver"),
                            relver  |-> Get(keep[i], "relver"),
                            epoch   |-> Or(Get(keep[i], "epoch"), <<"0">>),
                            arch    |-> Get(keep[i], "arch")]]]

\* lines 130-178 for one name; the except of line 176 skips the name
CacheGroupDeletions(name, pkgs) ==
    IF Len(pkgs) > 1
    THEN LET valid_pkgs == CacheValidPkgs(name, pkgs)
         IN IF valid_pkgs = <<>> THEN <<>>
            ELSE IF LatestFoldExc(Tail(valid_pkgs), Head(valid_pkgs)) # "none" THEN <<>>
            ELSE LET lat == LatestFold(Tail(valid_pkgs), Head(valid_pkgs))
                     losers == SelectSeq(valid_pkgs, LAMBDA p : p # lat)
                 IN [i \in 1..Len(losers) |-> losers[i].original]
    ELSE <<>>

RECURSIVE CacheDeleteLoop(_)
CacheDeleteLoop(g) ==
    IF g = <<>> THEN <<>>
    ELSE CacheGroupDeletions(Head(g).key, Head(g).pkgs) \o CacheDeleteLoop(Tail(g))

----------------------------------------------------------------------------
(* The package lists a directory scan hands to the deduplication handlers *)

A == <<"a">>
B == <<"b">>
X == <<"x">>
Y == <<"y">>

\* the parsed fields of well-formed package files
WellFormed ==
    {[pkgname |-> n, arch |-> a, pkgver |-> v, relver |-> <<"1">>, epoch |-> <<"0">>] :
        n \in {A, B}, a \in {X, Y}, v \in {<<"1">>, <<"2">>}}

\* records with an empty or absent field, another epoch, a version that
\* isdigit() accepts and int() rejects, or the other field names
Malformed ==
    {MkPkg([pkgname |-> A, arch |-> X, pkgver |-> <<>>, relver |-> <<"1">>, epoch |-> <<"0">>]),
     MkPkg([pkgname |-> A, arch |-> X, pkgver |-> <<"1">>, relver |-> None, epoch |-> <<"0">>]),
     MkPkg([pkgname |-> B, arch |-> Y, pkgver |-> None, relver |-> None, epoch |-> <<"0">>]),
     MkPkg([pkgname |-> None, arch |-> X, pkgver |-> <<"1">>, relver |-> <<"1">>, epoch |-> <<"0">>]),
     MkPkg([pkgname |-> A, arch |-> None, pkgver |-> <<"2">>, relver |-> <<"1">>, epoch |-> <<"0">>]),
     MkPkg([pkgname |-> A, arch |-> X, pkgver |-> <<"1">>, relver |-> <<"1">>, epoch |-> <<"1">>]),
     MkPkg([pkgname |-> A, arch |-> X, pkgver |-> <<Sup2>>, relver |-> <<"1">>, epoch |-> <<"0">>]),
     [name |-> A, arch |-> X, version |-> <<"2">>, pkgrel |-> <<"1">>]}

ScanFields == WellFormed \cup Malformed

IdxChar == <<"1", "2", "3", "4", "5", "6">>

\* directory_scanner.scan_directory adds filename, fullpath and location; the
\* i-th file found is a file of its own
ScanRecord(fields, i) ==
    fields @@ [filename |-> <<"f", IdxChar[i]>>,
               fullpath |-> <<"/", "f", IdxChar[i]>>,
               location |-> <<>>]

\* the list a scan returns for files with the given fields, in walk order
ScanList(f) == [i \in 1..Len(f) |-> ScanRecord(f[i], i)]

\* the path execute_deletion hands to delete_file: lines 79-83
FilePath(pkg) ==
    IF "fullpath" \in DOMAIN pkg /\ pkg["fullpath"] # <<>>
    THEN pkg["fullpath"]
    ELSE pkg["location"] \o <<"/">> \o pkg["filename"]

\* Path(pkg['location']) / pkg['filename'] of the cache handler: line 197
CacheFilePath(pkg) == pkg["location"] \o <<"/">> \o pkg["filename"]

\* what the directory scan that follows the deletions finds
Rescan(pkgs, d) == SelectSeq(pkgs, LAMBDA p : FilePath(p) \in d)
CacheRescan(pkgs, d) == SelectSeq(pkgs, LAMBDA p : CacheFilePath(p) \in d)

----------------------------------------------------------------------------
(* PackageParser.parse_filename *)

Lower == {"a", "b", "c", "d", "e", "f", "g", "h", "i", "j", "k", "l", "m",
          "n", "o", "p", "q", "r", "s", "t", "u", "v", "w", "x", "y", "z"}
Upper == {"A", "B", "C", "D", "E", "F", "G", "H", "I", "J", "K", "L", "M",
          "N", "O", "P", "Q", "R", "S", "T", "U", "V", "W", "X", "Y", "Z"}
AlNum == Lower \cup Upper \cup Digits

PkgExt == <<".", "p", "k", "g", ".", "t", "a", "r", ".", "z", "s", "t">>
Unknown == <<"u", "n", "k", "n", "o", "w", "n">>

\* s.endswith(suf)
EndsWith(s, suf) ==
    Len(s) >= Len(suf) /\ SubSeq(s, Len(s) - Len(suf) + 1, Len(s)) = suf

\* sep in s
Contains(s, sep) == \E i \in 1..Len(s) : s[i] = sep

\* position of the last '/' of s, 0 when there is none
LastSlash(s) ==
    IF ~Contains(s, "/") THEN 0
    ELSE CHOOSE i \in 1..Len(s) : s[i] = "/" /\ \A k \in (i+1)..Len(s) : s[k] # "/"

\* os.path.basename(s)
Basename(s) == SubSeq(s, LastSlash(s) + 1, Len(s))

\* str(Path(s).parent), for a path without '//', '/./' or a trailing '/'
ParentDir(s) ==
    IF LastSlash(s) = 0 THEN <<".">>
    ELSE IF LastSlash(s) = 1 THEN <<"/">>
    ELSE SubSeq(s, 1, LastSlash(s) - 1)

\* sep.join(parts)
RECURSIVE Join(_, _)
Join(parts, sep) ==
    IF parts = <<>> THEN <<>>
    ELSE IF Len(parts) = 1 THEN parts[1]
    ELSE parts[1] \o <<sep>> \o Join(Tail(parts), sep)

\* s.split(sep, 1)
SplitMax1(s, sep) ==
    IF ~Contains(s, sep) THEN <<s>>
    ELSE LET i == CHOOSE j \in 1..Len(s) : s[j] = sep /\ \A k \in 1..(j-1) : s[k] # sep
         IN <<SubSeq(s, 1, i-1), SubSeq(s, i+1, Len(s))>>

\* a pattern that ends in $ matches at the end of the str and also before a
\* newline that ends the str: the texts the rest of the pattern may cover
AtDollar(s) ==
    {s} \cup (IF s # <<>> /\ s[Len(s)] = "\n" THEN {SubSeq(s, 1, Len(s) - 1)} ELSE {})

\* \d+(\.\d+)? over the whole of s
DigitsDotDigits(s) ==
    LET g == Split(s, ".")
    IN Len(g) \in {1, 2} /\ \A i \in 1..Len(g) : IsDecimal(g[i])

\* [a-z0-9_]+ over the whole of s
ArchChars(s) == s # <<>> /\ \A i \in 1..Len(s) : s[i] \in Lower \cup Digits \cup {"_"}

\* re.match(r'^\d+(\.\d+)?$', pkgrel): line 41
MatchRelease(s) == \E t \in AtDollar(s) : DigitsDotDigits(t)

\* re.match(r'^[a-z0-9_]+$', arch): line 65
MatchArch(s) == \E t \in AtDollar(s) : ArchChars(t)

\* re.match(r'^\d', part) or ':' in part: line 53
LooksLikeVersion(part) == (part # <<>> /\ part[1] \in Digits) \/ Contains(part, ":")

\* re.match(r'^[^a-zA-Z0-9]*$', pkgname): line 83
AllSpecial(s) == \A i \in 1..Len(s) : s[i] \notin AlNum

\* re.search(r'^([a-zA-Z0-9][a-zA-Z0-9+._-]*)', base_name).group(1), None
\* when there is no match: line 85
NameSearch(s) ==
    IF s = <<>> \/ s[1] \notin AlNum THEN None
    ELSE LET ok(i) == s[i] \in AlNum \cup {"+", ".", "_", "-"}
             n == CHOOSE k \in 1..Len(s) :
                     /\ \A i \in 1..k : ok(i)
                     /\ (k < Len(s) => ~ok(k + 1))
         IN SubSeq(s, 1, n)

\* the last part that looks like a version, Len + 1 when none does
VersionStart_Last(remaining_parts) ==
    LET hits == {i \in 1..Len(remaining_parts) : LooksLikeVersion(remaining_parts[i])}
    IN IF hits = {} THEN Len(remaining_parts) + 1
       ELSE CHOOSE i \in hits : \A k \in hits : i >= k

\* lines 51-55: the first part that looks like a version, Len + 1 when none does
VersionStart(remaining_parts) ==
    LET hits == {i \in 1..Len(remaining_parts) : LooksLikeVersion(remaining_parts[i])}
    IN IF hits = {} THEN Len(remaining_parts) + 1
       ELSE CHOOSE i \in hits : \A k \in hits : i <= k

\* lines 46-77: the name parts, the version portion and the arch; fail for
\* the return of line 74
NameVersionSplit(remaining_parts, arch) ==
    LET n == Len(remaining_parts)
        version_start == VersionStart(remaining_parts)
    IN IF version_start = n + 1
       THEN IF n >= 2
            THEN IF ~MatchArch(arch) /\ n >= 3
                 THEN [fail |-> FALSE,
                       pkgname_parts |-> SubSeq(remaining_parts, 1, n - 3),
                       version_part  |-> Join(SubSeq(remaining_parts, n - 2, n - 1), "-"),
                       arch          |-> remaining_parts[n]]
                 ELSE [fail |-> FALSE,
                       pkgname_parts |-> SubSeq(remaining_parts, 1, n - 2),
                       version_part  |-> remaining_parts[n - 1],
                       arch          |-> arch]
            ELSE [fail |-> TRUE, pkgname_parts |-> <<>>, version_part |-> <<>>, arch |-> arch]
       ELSE [fail |-> FALSE,
             pkgname_parts |-> SubSeq(remaining_parts, 1, version_start - 1),
             version_part  |-> Join(SubSeq(remaining_parts, version_start, n), "-"),
             arch          |-> arch]

\* lines 80-90: the name, None for the return of line 90
PkgName(pkgname_parts, base_name) ==
    LET pkgname == IF pkgname_parts # <<>> THEN Join(pkgname_parts, "-") ELSE Unknown
    IN IF pkgname = <<>> \/ AllSpecial(pkgname) THEN NameSearch(base_name) ELSE pkgname

\* a split of the version portion at every ':'
EpochSplit_Every(version_part) == Split(version_part, ":")

\* line 95: version_part.split(':', 1)
EpochSplit(version_part) == SplitMax1(version_part, ":")

\* lines 92-113: epoch, version and the record; the assignment of line 95
\* unpacks two values
BuildRecord(filename_, pkgname, version_part, pkgrel, arch) ==
    IF Contains(version_part, ":")
    THEN LET ev == EpochSplit(version_part)
         IN IF Len(ev) # 2 THEN Raise("ValueError")
            ELSE Ret(MkPkg([pkgname |-> pkgname, pkgver |-> ev[2], epoch |-> ev[1],
                            relver |-> pkgrel, arch |-> arch,
                            location |-> ParentDir(filename_), filename |-> filename_]))
    ELSE Ret(MkPkg([pkgname |-> pkgname, pkgver |-> version_part, epoch |-> <<"0">>,
                    relver |-> pkgrel, arch |-> arch,
                    location |-> ParentDir(filename_), filename |-> filename_]))

parse_filename(filename_) ==
    IF ~EndsWith(filename_, PkgExt) THEN Ret(None)
    ELSE LET base == Basename(filename_)
             base_name == SubSeq(base, 1, Len(base) - 12)
             parts == Split(base_name, "-")
         IN IF Len(parts) < 4 THEN Ret(None)
            ELSE LET arch == parts[Len(parts)]
                     pkgrel == parts[Len(parts) - 1]
                 IN IF ~MatchRelease(pkgrel) THEN Ret(None)
                    ELSE LET sp == NameVersionSplit(SubSeq(parts, 1, Len(parts) - 2), arch)
                         IN IF sp.fail THEN Ret(None)
                            ELSE LET pkgname == PkgName(sp.pkgname_parts, base_name)
                                 IN IF pkgname = None THEN Ret(None)
                                    ELSE BuildRecord(filename_, pkgname, sp.version_part,
                                                     pkgrel, sp.arch)

----------------------------------------------------------------------------
(* Comparator specifications: the inputs are drawn in Init, Compare applies *)
(* compare_versions to every ordered pair of them.                          *)

NotRun == <<>>

\* existing_packages.json does not exist
NoFile == [exists |-> FALSE, text |-> <<>>]

IdleFlow ==
    /\ packages = <<>>
    /\ grouped = <<>>
    /\ skipped_count = 0
    /\ to_delete = <<>>
    /\ confirm = "none"
    /\ deleted = <<>>
    /\ success_count = 0
    /\ failed_files = <<>>
    /\ del_idx = 0
    /\ disk = {}
    /\ handler = "none"
    /\ latest = NotRun
    /\ vc_latest = NotRun

IdleParser ==
    /\ filename = <<>>
    /\ parsed = NotRun

IdleStore ==
    /\ scan_file = NoFile
    /\ loaded = NotRun
    /\ raised = "none"

\* backup_newer_versions has not run
IdleNewer ==
    /\ existing_packages = <<>>
    /\ processed_packages = {}
    /\ copied = <<>>
    /\ upd_idx = 0

InitCmp ==
    /\ IdleFlow
    /\ IdleParser
    /\ IdleStore
    /\ pc = "cmp"
    /\ cmpArgs \in [1..2 -> CmpRecs]
    /\ cmpRes = NotRun
    /\ IdleNewer

InitOrder ==
    /\ IdleFlow
    /\ IdleParser
    /\ IdleStore
    /\ pc = "cmp"
    /\ cmpArgs \in [1..3 -> OrderRecs]
    /\ cmpRes = NotRun
    /\ IdleNewer

Compare ==
    /\ pc = "cmp"
    /\ cmpRes = NotRun
    /\ cmpRes' = [i \in DOMAIN cmpArgs |->
                    [j \in DOMAIN cmpArgs |-> compare_versions(cmpArgs[i], cmpArgs[j])]]
    /\ pc' = "done"
    /\ UNCHANGED <<filename, parsed, scan_file, loaded, raised>>
    /\ UNCHANGED <<packages, grouped, skipped_count, to_delete, confirm, deleted,
                   success_count, failed_files, del_idx, disk, handler, cmpArgs, latest, vc_latest>>
    /\ UNCHANGED <<existing_packages, processed_packages, copied, upd_idx>>

NextCmp == Compare

SpecCmp == InitCmp /\ [][NextCmp]_vars

NextOrder == Compare

SpecOrder == InitOrder /\ [][NextOrder]_vars

----------------------------------------------------------------------------
(* Latest-selection specification: one group, drawn in Init, handed to      *)
(* find_latest_package and to find_latest.                                  *)

LatestVers == {<<"1">>, <<"2">>, <<"1", "0">>, <<"1", "a">>, <<Sup2>>, <<>>, None}
LatestRels == {<<"1">>, None}

LatestFields ==
    {MkPkg([pkgname |-> A, arch |-> X, epoch |-> <<"0">>, pkgver |-> v, relver |-> r]) :
        v \in LatestVers, r \in LatestRels}

InitLatest ==
    /\ \E n \in 0..MaxGroup : \E f \in [1..n -> LatestFields] : packages = ScanList(f)
    /\ grouped = <<>>
    /\ skipped_count = 0
    /\ to_delete = <<>>
    /\ confirm = "none"
    /\ deleted = <<>>
    /\ success_count = 0
    /\ failed_files = <<>>
    /\ del_idx = 0
    /\ disk = {}
    /\ handler = "none"
    /\ pc = "latest"
    /\ cmpArgs = <<>>
    /\ cmpRes = NotRun
    /\ latest = NotRun
    /\ vc_latest = NotRun
    /\ filename = <<>>
    /\ parsed = NotRun
    /\ scan_file = NoFile
    /\ loaded = NotRun
    /\ raised = "none"
    /\ IdleNewer

\* find_latest_package(packages); a comparison that raises leaves it
FindLatestPackage ==
    /\ pc = "latest"
    /\ latest = NotRun
    /\ raised = "none"
    /\ raised' = find_latest_package_exc(packages)
    /\ latest' = IF raised' = "none" THEN find_latest_package(packages) ELSE latest
    /\ UNCHANGED <<filename, parsed, scan_file, loaded>>
    /\ UNCHANGED <<packages, grouped, skipped_count, to_delete, confirm, deleted,
                   success_count, failed_files, del_idx, disk, handler, pc,
                   cmpArgs, cmpRes, vc_latest>>
    /\ UNCHANGED <<existing_packages, processed_packages, copied, upd_idx>>

FindLatest ==
    /\ pc = "latest"
    /\ vc_latest = NotRun
    /\ vc_latest' = find_latest(packages)
    /\ UNCHANGED <<filename, parsed, scan_file, loaded, raised>>
    /\ UNCHANGED <<packages, grouped, skipped_count, to_delete, confirm, deleted,
                   success_count, failed_files, del_idx, disk, handler, pc,
                   cmpArgs, cmpRes, latest>>
    /\ UNCHANGED <<existing_packages, processed_packages, copied, upd_idx>>

NextLatest ==
    \/ FindLatestPackage
    \/ FindLatest

SpecLatest == InitLatest /\ [][NextLatest]_vars

----------------------------------------------------------------------------
(* Parser specification: a filename, drawn in Init, is handed to            *)
(* parse_filename.                                                          *)

MaxSegs == 5        \* most '-'-separated segments of a file's stem

\* the segments a stem is made of
Segs ==
    {<<>>, <<"a">>, <<"1">>, <<"1", ".", "0">>, <<"2", ":", "1">>, <<"b", ":", "1">>,
     <<"X">>, <<"1", "\n">>}

Dirs == {<<>>, <<"d", "/">>}
Exts == {PkgExt, <<".", "p", "k", "g", ".", "t", "a", "r", ".", "z", "s">>}

InitParse ==
    /\ IdleFlow
    /\ IdleStore
    /\ pc = "parse"
    /\ cmpArgs = <<>>
    /\ cmpRes = NotRun
    /\ \E d \in Dirs : \E n \in 0..MaxSegs : \E segs \in [1..n -> Segs] : \E e \in Exts :
          filename = d \o Join(segs, "-") \o e
    /\ parsed = NotRun
    /\ IdleNewer

ParseFilename ==
    /\ pc = "parse"
    /\ parsed' = parse_filename(filename)
    /\ raised' = parsed'.exc
    /\ pc' = "done"
    /\ UNCHANGED <<scan_file, loaded, filename>>
    /\ UNCHANGED <<packages, grouped, skipped_count, to_delete, confirm, deleted,
                   success_count, failed_files, del_idx, disk, handler,
                   cmpArgs, cmpRes, latest, vc_latest>>
    /\ UNCHANGED <<existing_packages, processed_packages, copied, upd_idx>>

NextParse == ParseFilename

SpecParse == InitParse /\ [][NextParse]_vars

----------------------------------------------------------------------------
(* Core specification: parse_filename on a filename, or the three methods   *)
(* of PackageDeduplicator on a list of records with empty or absent fields. *)

\* each of name, arch, epoch, version and release in turn empty and absent
CoreFields ==
    {MkPkg([pkgname |-> A, arch |-> X, epoch |-> <<"0">>, pkgver |-> v, relver |-> <<"1">>]) :
        v \in {<<"1">>, <<"2">>, <<Sup2>>}}
    \cup
    {MkPkg([[pkgname |-> A, arch |-> X, epoch |-> <<"1">>, pkgver |-> <<"1">>,
             relver |-> <<"1">>] EXCEPT ![k] = v]) :
        k \in {"pkgname", "arch", "epoch", "pkgver", "relver"}, v \in {<<>>, None}}

InitCore ==
    \/ InitParse
    \/ /\ \E n \in 0..MaxPkgs : \E f \in [1..n -> CoreFields] : packages = ScanList(f)
       /\ grouped = <<>>
       /\ skipped_count = 0
       /\ to_delete = <<>>
       /\ confirm = "none"
       /\ deleted = <<>>
       /\ success_count = 0
       /\ failed_files = <<>>
       /\ del_idx = 0
       /\ disk = {}
       /\ handler = "none"
       /\ pc = "core"
       /\ cmpArgs = <<>>
       /\ cmpRes = NotRun
       /\ latest = NotRun
       /\ vc_latest = NotRun
       /\ IdleParser
       /\ IdleStore
       /\ IdleNewer

\* group_packages_by_name_and_arch(packages): every statement of lines 34-50
\* is a dict.get, a test or an append
CoreGroup ==
    /\ pc = "core"
    /\ LET r == group_packages_by_name_and_arch(packages)
       IN /\ grouped' = r.grouped
          /\ skipped_count' = r.skipped_count
    /\ raised' = "none"
    /\ pc' = "core_latest"
    /\ UNCHANGED <<filename, parsed, scan_file, loaded>>
    /\ UNCHANGED <<packages, to_delete, confirm, deleted, success_count, failed_files,
                   del_idx, disk, handler, cmpArgs, cmpRes, latest, vc_latest>>
    /\ UNCHANGED <<existing_packages, processed_packages, copied, upd_idx>>

\* find_latest_package(packages)
CoreFindLatest ==
    /\ pc = "core_latest"
    /\ raised' = find_latest_package_exc(packages)
    /\ latest' = IF raised' = "none" THEN find_latest_package(packages) ELSE latest
    /\ pc' = IF raised' = "none" THEN "core_select" ELSE "done"
    /\ UNCHANGED <<filename, parsed, scan_file, loaded>>
    /\ UNCHANGED <<packages, grouped, skipped_count, to_delete, confirm, deleted,
                   success_count, failed_files, del_idx, disk, handler,
                   cmpArgs, cmpRes, vc_latest>>
    /\ UNCHANGED <<existing_packages, processed_packages, copied, upd_idx>>

\* find_packages_to_delete(grouped): the comparisons run inside the try of
\* line 123
CoreFindToDelete ==
    /\ pc = "core_select"
    /\ to_delete' = find_packages_to_delete(grouped)
    /\ raised' = "none"
    /\ pc' = "done"
    /\ UNCHANGED <<filename, parsed, scan_file, loaded>>
    /\ UNCHANGED <<packages, grouped, skipped_count, confirm, deleted, success_count,
                   failed_files, del_idx, disk, handler, cmpArgs, cmpRes, latest, vc_latest>>
    /\ UNCHANGED <<existing_packages, processed_packages, copied, upd_idx>>

NextCore ==
    \/ ParseFilename
    \/ CoreGroup
    \/ CoreFindLatest
    \/ CoreFindToDelete

SpecCore == InitCore /\ [][NextCore]_vars

----------------------------------------------------------------------------
(* ScanResultManager: save_scan_results writes backup_manager.packages to   *)
(* existing_packages.json, load_scan_results reads the file.                *)
(* The JSON text is kept as the list of its objects, each a function from   *)
(* the key to the string literal that json.dump writes for the value.       *)

\* the characters json.dump writes for one character (ensure_ascii=False)
JsonEscapeChar(c) ==
    IF c = "\"" THEN <<"\\", "\"">>
    ELSE IF c = "\\" THEN <<"\\", "\\">>
    ELSE IF c = "\n" THEN <<"\\", "n">>
    ELSE <<c>>

RECURSIVE JsonEscape(_)
JsonEscape(str) ==
    IF str = <<>> THEN <<>> ELSE JsonEscapeChar(Head(str)) \o JsonEscape(Tail(str))

\* the string literal of a str
JsonString(str) == <<"\"">> \o JsonEscape(str) \o <<"\"">>

\* the str of the text between the quotes of a string literal
RECURSIVE JsonUnescape(_)
JsonUnescape(body) ==
    IF body = <<>> THEN <<>>
    ELSE IF Head(body) = "\\"
    THEN <<IF body[2] = "n" THEN "\n" ELSE body[2]>> \o JsonUnescape(SubSeq(body, 3, Len(body)))
    ELSE <<Head(body)>> \o JsonUnescape(Tail(body))

\* the str json.load reads from a string literal
JsonParseString(lit) == JsonUnescape(SubSeq(lit, 2, Len(lit) - 1))

\* json.dump(packages_to_save, f): line 56
JsonDump(pkgs) ==
    [i \in 1..Len(pkgs) |-> [k \in DOMAIN pkgs[i] |-> JsonString(pkgs[i][k])]]

\* json.load(f): line 91
JsonLoad(text) ==
    [i \in 1..Len(text) |-> [k \in DOMAIN text[i] |-> JsonParseString(text[i][k])]]

\* a copy that also loses the location
SaveCopy_DropLocation(pkg) == [k \in DOMAIN pkg \ {"filename", "location"} |-> pkg[k]]

\* lines 51-52: pkg.copy() followed by pop('filename', None)
SaveCopy(pkg) == [k \in DOMAIN pkg \ {"filename"} |-> pkg[k]]

\* lines 49-53: packages_to_save
PackagesToSave(pkgs) == [i \in 1..Len(pkgs) |-> SaveCopy(pkgs[i])]

\* the parsed fields of the scanned files; two names hold characters that
\* json.dump escapes
StoreFields ==
    {[pkgname |-> n, arch |-> X, pkgver |-> v, relver |-> <<"1">>, epoch |-> <<"0">>] :
        n \in {A, <<"a", "\"">>, <<"\\", "n">>, <<"a", "\n">>}, v \in {<<"1">>, <<"1", ".", "0">>}}

InitStore ==
    /\ \E n \in 0..MaxPkgs : \E f \in [1..n -> StoreFields] : packages = ScanList(f)
    /\ grouped = <<>>
    /\ skipped_count = 0
    /\ to_delete = <<>>
    /\ confirm = "none"
    /\ deleted = <<>>
    /\ success_count = 0
    /\ failed_files = <<>>
    /\ del_idx = 0
    /\ disk = {}
    /\ handler = "none"
    /\ pc = "store"
    /\ cmpArgs = <<>>
    /\ cmpRes = NotRun
    /\ latest = NotRun
    /\ vc_latest = NotRun
    /\ IdleParser
    /\ IdleStore
    /\ IdleNewer

\* save_scan_results: the file is written, or open() raises and the
\* exception is raised again (lines 60-66)
SaveScanResults ==
    /\ pc = "store"
    /\ \E outcome \in {"none", "PermissionError", "OSError"} :
          /\ raised' = outcome
          /\ scan_file' = IF outcome = "none"
                          THEN [exists |-> TRUE, text |-> JsonDump(PackagesToSave(packages))]
                          ELSE scan_file
    /\ pc' = "saved"
    /\ UNCHANGED <<filename, parsed, loaded>>
    /\ UNCHANGED <<packages, grouped, skipped_count, to_delete, confirm, deleted,
                   success_count, failed_files, del_idx, disk, handler,
                   cmpArgs, cmpRes, latest, vc_latest>>
    /\ UNCHANGED <<existing_packages, processed_packages, copied, upd_idx>>

\* load_scan_results: [] when the file does not exist (lines 86-88), the
\* list json.load returns otherwise, or open() raises (lines 96-99)
LoadScanResults ==
    /\ pc \in {"store", "saved"}
    /\ \E outcome \in {"none", "PermissionError", "OSError"} :
          /\ outcome # "none" => scan_file.exists
          /\ raised' = outcome
          /\ loaded' = IF outcome # "none" THEN loaded
                       ELSE IF scan_file.exists THEN JsonLoad(scan_file.text)
                       ELSE <<>>
    /\ pc' = "loaded"
    /\ UNCHANGED <<filename, parsed, scan_file>>
    /\ UNCHANGED <<packages, grouped, skipped_count, to_delete, confirm, deleted,
                   success_count, failed_files, del_idx, disk, handler,
                   cmpArgs, cmpRes, latest, vc_latest>>
    /\ UNCHANGED <<existing_packages, processed_packages, copied, upd_idx>>

NextStore ==
    \/ SaveScanResults
    \/ LoadScanResults

SpecStore == InitStore /\ [][NextStore]_vars

----------------------------------------------------------------------------
(* BackupManagerOperations.deduplicate_packages: PackageDeduplicator, then  *)
(* PackageDeleter.confirm_and_delete_packages, then the rescan.             *)

Init ==
    /\ \E n \in 0..MaxPkgs : \E f \in [1..n -> ScanFields] : packages = ScanList(f)
    /\ handler \in {"backup", "cache"}
    /\ disk = {FilePath(packages[i]) : i \in 1..Len(packages)}
    /\ grouped = <<>>
    /\ skipped_count = 0
    /\ to_delete = <<>>
    /\ confirm = "none"
    /\ deleted = <<>>
    /\ success_count = 0
    /\ failed_files = <<>>
    /\ del_idx = 0
    /\ pc = "idle"
    /\ cmpArgs = <<>>
    /\ cmpRes = NotRun
    /\ latest = NotRun
    /\ vc_latest = NotRun
    /\ filename = <<>>
    /\ parsed = NotRun
    /\ scan_file = NoFile
    /\ loaded = NotRun
    /\ raised = "none"
    /\ IdleNewer

\* lines 132-134 of backup_manager_operations_old.py, 110-112 of cache_manager_operations.py
NoPackages ==
    /\ pc = "idle"
    /\ packages = <<>>
    /\ pc' = "done"
    /\ UNCHANGED <<filename, parsed, scan_file, loaded, raised>>
    /\ UNCHANGED <<packages, grouped, skipped_count, to_delete, confirm, deleted,
                   success_count, failed_files, del_idx, disk, handler, cmpArgs, cmpRes, latest, vc_latest>>
    /\ UNCHANGED <<existing_packages, processed_packages, copied, upd_idx>>

GroupPackages ==
    /\ handler = "backup"
    /\ pc = "idle"
    /\ packages # <<>>
    /\ LET r == group_packages_by_name_and_arch(packages)
       IN /\ grouped' = r.grouped
          /\ skipped_count' = r.skipped_count
    /\ pc' = "grouped"
    /\ UNCHANGED <<filename, parsed, scan_file, loaded, raised>>
    /\ UNCHANGED <<packages, to_delete, confirm, deleted, success_count, failed_files,
                   del_idx, disk, handler, cmpArgs, cmpRes, latest, vc_latest>>
    /\ UNCHANGED <<existing_packages, processed_packages, copied, upd_idx>>

\* find_packages_to_delete, and the early return when it finds nothing
FindPackagesToDelete ==
    /\ handler = "backup"
    /\ pc = "grouped"
    /\ to_delete' = find_packages_to_delete(grouped)
    /\ pc' = IF to_delete' = <<>> THEN "done" ELSE "confirm"
    /\ UNCHANGED <<filename, parsed, scan_file, loaded, raised>>
    /\ UNCHANGED <<packages, grouped, skipped_count, confirm, deleted, success_count,
                   failed_files, del_idx, disk, handler, cmpArgs, cmpRes, latest, vc_latest>>
    /\ UNCHANGED <<existing_packages, processed_packages, copied, upd_idx>>

\* the deletion goes ahead whatever the answer
AfterConfirm_Ignored(answer) == "deleting"

\* what follows the answer of show_confirmation: lines 40-47 of package_deleter.py
AfterConfirm(answer) == IF answer = "yes" THEN "deleting" ELSE "done"

\* confirm_and_delete_packages up to the call of execute_deletion
Confirm ==
    /\ handler = "backup"
    /\ pc = "confirm"
    /\ \E answer \in {"yes", "no"} :
          /\ confirm' = answer
          /\ pc' = AfterConfirm(answer)
    /\ success_count' = 0
    /\ failed_files' = <<>>
    /\ del_idx' = 1
    /\ UNCHANGED <<filename, parsed, scan_file, loaded, raised>>
    /\ UNCHANGED <<packages, grouped, skipped_count, to_delete, deleted, disk,
                   handler, cmpArgs, cmpRes, latest, vc_latest>>
    /\ UNCHANGED <<existing_packages, processed_packages, copied, upd_idx>>

\* show_confirmation raises (BackupManagerOperations hands itself to
\* PackageDeleter as ui_handler and has no such method): the exception leaves
\* confirm_and_delete_packages at line 36 and handle_errors ends the handler
ConfirmRaises ==
    /\ handler = "backup"
    /\ pc = "confirm"
    /\ pc' = "done"
    /\ UNCHANGED <<filename, parsed, scan_file, loaded, raised>>
    /\ UNCHANGED <<packages, grouped, skipped_count, to_delete, confirm, deleted,
                   success_count, failed_files, del_idx, disk, handler,
                   cmpArgs, cmpRes, latest, vc_latest>>
    /\ UNCHANGED <<existing_packages, processed_packages, copied, upd_idx>>

DeleteOutcomes == {"True", "False", "PermissionError", "FileNotFoundError", "OSError", "Exception"}

\* lines 88-89 and 97-101: the file counts as deleted
DeleteSucceeds(outcome) == outcome \in {"True", "FileNotFoundError"}

\* a loop whose last except clause (lines 106-109) records nothing
DeleteFails_NoCatchAll(outcome) == outcome \in {"False", "PermissionError", "OSError"}

\* lines 90-96 and 102-109: the path is appended to failed_files
DeleteFails(outcome) == outcome \in {"False", "PermissionError", "OSError", "Exception"}

\* one iteration of execute_deletion's loop: lines 71-109
DeleteStep ==
    /\ handler = "backup"
    /\ pc = "deleting"
    /\ del_idx <= Len(to_delete)
    /\ LET pkg == to_delete[del_idx]
       IN IF "location" \notin DOMAIN pkg \/ "filename" \notin DOMAIN pkg
          THEN /\ failed_files' = Append(failed_files, <<"invalid">>)
               /\ UNCHANGED <<deleted, success_count, disk>>
          ELSE \E outcome \in DeleteOutcomes :
                 /\ outcome = "True" => FilePath(pkg) \in disk
                 /\ deleted' = Append(deleted, pkg)
                 /\ disk' = IF outcome = "True" THEN disk \ {FilePath(pkg)} ELSE disk
                 /\ success_count' = IF DeleteSucceeds(outcome)
                                     THEN success_count + 1 ELSE success_count
                 /\ failed_files' = IF DeleteFails(outcome)
                                    THEN Append(failed_files, FilePath(pkg))
                                    ELSE failed_files
    /\ del_idx' = del_idx + 1
    /\ UNCHANGED <<filename, parsed, scan_file, loaded, raised>>
    /\ UNCHANGED <<packages, grouped, skipped_count, to_delete, confirm, handler, pc,
                   cmpArgs, cmpRes, latest, vc_latest>>
    /\ UNCHANGED <<existing_packages, processed_packages, copied, upd_idx>>

\* execute_deletion returns; the caller returns at once when nothing was
\* counted (lines 156-157) and rescans the directory otherwise (line 161)
FinishDeletion ==
    /\ handler = "backup"
    /\ pc = "deleting"
    /\ del_idx > Len(to_delete)
    /\ packages' = IF success_count = 0 /\ failed_files = <<>>
                   THEN packages ELSE Rescan(packages, disk)
    /\ pc' = "done"
    /\ UNCHANGED <<filename, parsed, scan_file, loaded, raised>>
    /\ UNCHANGED <<grouped, skipped_count, to_delete, confirm, deleted, success_count,
                   failed_files, del_idx, disk, handler, cmpArgs, cmpRes, latest, vc_latest>>
    /\ UNCHANGED <<existing_packages, processed_packages, copied, upd_idx>>

----------------------------------------------------------------------------
(* CacheManagerOperations.deduplicate_packages *)

\* lines 114-182: grouping by name, selection, and the early return
CacheDeduplicate ==
    /\ handler = "cache"
    /\ pc = "idle"
    /\ packages # <<>>
    /\ grouped' = CacheGroupLoop(packages, <<>>)
    /\ to_delete' = CacheDeleteLoop(grouped')
    /\ pc' = IF to_delete' = <<>> THEN "done" ELSE "confirm"
    /\ UNCHANGED <<filename, parsed, scan_file, loaded, raised>>
    /\ UNCHANGED <<packages, skipped_count, confirm, deleted, success_count,
                   failed_files, del_idx, disk, handler, cmpArgs, cmpRes, latest, vc_latest>>
    /\ UNCHANGED <<existing_packages, processed_packages, copied, upd_idx>>

\* what follows the answer of QMessageBox.question: line 192
CacheAfterConfirm(answer) == IF answer = "yes" THEN "deleting" ELSE "done"

\* lines 185-194
CacheConfirm ==
    /\ handler = "cache"
    /\ pc = "confirm"
    /\ \E answer \in {"yes", "no"} :
          /\ confirm' = answer
          /\ pc' = CacheAfterConfirm(answer)
    /\ success_count' = 0
    /\ failed_files' = <<>>
    /\ del_idx' = 1
    /\ UNCHANGED <<filename, parsed, scan_file, loaded, raised>>
    /\ UNCHANGED <<packages, grouped, skipped_count, to_delete, deleted, disk,
                   handler, cmpArgs, cmpRes, latest, vc_latest>>
    /\ UNCHANGED <<existing_packages, processed_packages, copied, upd_idx>>

\* one iteration of the loop of lines 196-206
CacheDeleteStep ==
    /\ handler = "cache"
    /\ pc = "deleting"
    /\ del_idx <= Len(to_delete)
    /\ LET pkg == to_delete[del_idx]
       IN \E outcome \in DeleteOutcomes :
             /\ outcome = "True" => CacheFilePath(pkg) \in disk
             /\ deleted' = Append(deleted, pkg)
             /\ disk' = IF outcome = "True" THEN disk \ {CacheFilePath(pkg)} ELSE disk
             /\ success_count' = IF outcome = "True" THEN success_count + 1 ELSE success_count
             /\ failed_files' = IF outcome = "True" THEN failed_files
                                ELSE Append(failed_files, CacheFilePath(pkg))
    /\ del_idx' = del_idx + 1
    /\ UNCHANGED <<filename, parsed, scan_file, loaded, raised>>
    /\ UNCHANGED <<packages, grouped, skipped_count, to_delete, confirm, handler, pc,
                   cmpArgs, cmpRes, latest, vc_latest>>
    /\ UNCHANGED <<existing_packages, processed_packages, copied, upd_idx>>

\* lines 208-231: the rescan that follows the loop
CacheFinish ==
    /\ handler = "cache"
    /\ pc = "deleting"
    /\ del_idx > Len(to_delete)
    /\ packages' = CacheRescan(packages, disk)
    /\ pc' = "done"
    /\ UNCHANGED <<filename, parsed, scan_file, loaded, raised>>
    /\ UNCHANGED <<grouped, skipped_count, to_delete, confirm, deleted, success_count,
                   failed_files, del_idx, disk, handler, cmpArgs, cmpRes, latest, vc_latest>>
    /\ UNCHANGED <<existing_packages, processed_packages, copied, upd_idx>>

Next ==
    \/ NoPackages
    \/ GroupPackages
    \/ FindPackagesToDelete
    \/ Confirm
    \/ ConfirmRaises
    \/ DeleteStep
    \/ FinishDeletion
    \/ CacheDeduplicate
    \/ CacheConfirm
    \/ CacheDeleteStep
    \/ CacheFinish

Spec == Init /\ [][Next]_vars

----------------------------------------------------------------------------
(* BackupService.backup_newer_versions: updated_packages (the cache list,  *)
(* kept in packages) against existing_packages (the backup list).          *)

\* the entries of updated_packages.json: names a and b, versions around the
\* backup's, a missing name, a missing version, a version int() rejects
UpdatedFields ==
    {MkPkg([pkgname |-> n, pkgver |-> v, relver |-> <<"1">>, epoch |-> <<"0">>, arch |-> X]) :
        n \in {A, B}, v \in {<<"2">>, <<"3">>}}
    \cup
    {MkPkg([pkgname |-> None, pkgver |-> <<"3">>, relver |-> <<"1">>, epoch |-> <<"0">>, arch |-> X]),
     MkPkg([pkgname |-> A, pkgver |-> None, relver |-> <<"1">>, epoch |-> <<"0">>, arch |-> X]),
     MkPkg([pkgname |-> A, pkgver |-> <<Sup2>>, relver |-> <<"1">>, epoch |-> <<"0">>, arch |-> X])}

\* the entries of existing_packages.json, under both sets of field names
ExistingFields ==
    {MkPkg([pkgname |-> A, pkgver |-> <<"2">>, relver |-> <<"1">>, epoch |-> <<"0">>, arch |-> X,
            location |-> <<>>]),
     MkPkg([pkgname |-> A, pkgver |-> <<"3">>, relver |-> <<"1">>, epoch |-> <<"0">>, arch |-> X,
            location |-> <<>>]),
     MkPkg([name |-> A, version |-> <<"1">>, pkgrel |-> <<"1">>, arch |-> X]),
     MkPkg([pkgname |-> B, pkgver |-> <<"2">>, relver |-> None, epoch |-> <<"0">>, arch |-> X,
            location |-> <<>>])}

\* lines 102-111: the position of the first entry with the name, 0 when no
\* entry has it
FindExisting(existing, pkg_name) ==
    LET hits == {i \in 1..Len(existing) :
                    Or(Get(existing[i], "pkgname"), Get(existing[i], "name")) = pkg_name}
    IN IF hits = {} THEN 0 ELSE CHOOSE i \in hits : \A k \in hits : i <= k

\* lines 118-132: a version or a release is missing on either side
NewerLacksFields(pkg, existing_pkg) ==
    \/ ~Truthy(Or(Get(pkg, "pkgver"), Get(pkg, "version")))
    \/ ~Truthy(Or(Get(existing_pkg, "pkgver"), Get(existing_pkg, "version")))
    \/ ~Truthy(Or(Get(pkg, "relver"), Get(pkg, "pkgrel")))
    \/ ~Truthy(Or(Get(existing_pkg, "relver"), Get(existing_pkg, "pkgrel")))

\* lines 135-151: pkg_for_compare and existing_for_compare
NewerCompareObj(pkg_name, pkg) ==
    [pkgname |-> pkg_name,
     pkgver  |-> Or(Get(pkg, "pkgver"), Get(pkg, "version")),
     relver  |-> Or(Get(pkg, "relver"), Get(pkg, "pkgrel")),
     epoch   |-> Or(Get(pkg, "epoch"), <<"0">>)]

\* a test that also takes a package of the backup's version
IsNewer_OrEqual(comparison_result) == comparison_result >= 0

\* line 157: comparison_result > 0
IsNewer(comparison_result) == comparison_result > 0

\* lines 86-157 for one package: "skip" for a continue or the else of line
\* 200, the exception of the comparison of line 154, "nofields" for the
\* continue of line 160, "copy" when the package goes on to line 162
NewerVerdict(pkg, existing, processed) ==
    LET pkg_name == Get(pkg, "pkgname")
        e == FindExisting(existing, pkg_name)
    IN IF pkg_name = None \/ pkg_name \in processed THEN "skip"
       ELSE IF e = 0 THEN "skip"
       ELSE IF NewerLacksFields(pkg, existing[e]) THEN "skip"
       ELSE LET c == compare_versions(NewerCompareObj(pkg_name, pkg),
                                      NewerCompareObj(pkg_name, existing[e]))
            IN IF c.exc # "none" THEN c.exc
               ELSE IF ~IsNewer(c.ret) THEN "skip"
               ELSE IF "fullpath" \notin DOMAIN pkg \/ "filename" \notin DOMAIN pkg
               THEN "nofields"
               ELSE "copy"

\* what follows line 162 for a package that goes on: the source file is
\* gone (line 163), the destination exists (line 191), copy_file returns
\* True or False or raises (lines 195-201)
CopyOutcomes == {"SrcMissing", "DestExists", "True", "False", "Exception"}

InitNewer ==
    /\ \E n \in 0..MaxUpdated : \E f \in [1..n -> UpdatedFields] : packages = ScanList(f)
    /\ \E n \in 0..MaxExisting : existing_packages \in [1..n -> ExistingFields]
    /\ grouped = <<>>
    /\ skipped_count = 0
    /\ to_delete = <<>>
    /\ confirm = "none"
    /\ deleted = <<>>
    /\ success_count = 0
    /\ failed_files = <<>>
    /\ del_idx = 0
    /\ disk = {}
    /\ handler = "newer"
    /\ pc = "idle"
    /\ cmpArgs = <<>>
    /\ cmpRes = NotRun
    /\ latest = NotRun
    /\ vc_latest = NotRun
    /\ IdleParser
    /\ IdleStore
    /\ processed_packages = {}
    /\ copied = <<>>
    /\ upd_idx = 0

\* lines 40-76: a JSON file or the backup directory is missing, or a file
\* does not hold a list of objects
NewerEarlyReturn ==
    /\ handler = "newer"
    /\ pc = "idle"
    /\ pc' = "done"
    /\ UNCHANGED <<packages, grouped, skipped_count, to_delete, confirm, deleted,
                   success_count, failed_files, del_idx, disk, handler, cmpArgs, cmpRes,
                   latest, vc_latest, filename, parsed, scan_file, loaded, raised,
                   existing_packages, processed_packages, copied, upd_idx>>

\* lines 81-83: the loop starts
NewerStart ==
    /\ handler = "newer"
    /\ pc = "idle"
    /\ pc' = "newer_loop"
    /\ success_count' = 0
    /\ processed_packages' = {}
    /\ upd_idx' = 1
    /\ UNCHANGED <<packages, grouped, skipped_count, to_delete, confirm, deleted,
                   failed_files, del_idx, disk, handler, cmpArgs, cmpRes,
                   latest, vc_latest, filename, parsed, scan_file, loaded, raised,
                   existing_packages, copied>>

\* one iteration of the loop of line 85; an exception of the comparison is
\* caught at line 205 and ends the run
NewerStep ==
    /\ handler = "newer"
    /\ pc = "newer_loop"
    /\ upd_idx <= Len(packages)
    /\ LET pkg == packages[upd_idx]
           pkg_name == Get(pkg, "pkgname")
           verdict == NewerVerdict(pkg, existing_packages, processed_packages)
       IN /\ processed_packages' = IF pkg_name = None THEN processed_packages
                                   ELSE processed_packages \cup {pkg_name}
          /\ raised' = IF verdict \in {"skip", "nofields", "copy"} THEN raised ELSE verdict
          /\ pc' = IF verdict \in {"skip", "nofields", "copy"} THEN pc ELSE "done"
          /\ IF verdict = "copy"
             THEN \E outcome \in CopyOutcomes :
                     /\ copied' = IF outcome \in {"True", "False", "Exception"}
                                  THEN Append(copied, pkg) ELSE copied
                     /\ success_count' = IF outcome = "True"
                                         THEN success_count + 1 ELSE success_count
             ELSE UNCHANGED <<copied, success_count>>
    /\ upd_idx' = upd_idx + 1
    /\ UNCHANGED <<packages, grouped, skipped_count, to_delete, confirm, deleted,
                   failed_files, del_idx, disk, handler, cmpArgs, cmpRes,
                   latest, vc_latest, filename, parsed, scan_file, loaded,
                   existing_packages>>

\* lines 203-204: the loop is over
NewerFinish ==
    /\ handler = "newer"
    /\ pc = "newer_loop"
    /\ upd_idx > Len(packages)
    /\ pc' = "done"
    /\ UNCHANGED <<packages, grouped, skipped_count, to_delete, confirm, deleted,
                   success_count, failed_files, del_idx, disk, handler, cmpArgs, cmpRes,
                   latest, vc_latest, filename, parsed, scan_file, loaded, raised,
                   existing_packages, processed_packages, copied, upd_idx>>

NextNewer ==
    \/ NewerEarlyReturn
    \/ NewerStart
    \/ NewerStep
    \/ NewerFinish

SpecNewer == InitNewer /\ [][NextNewer]_vars

----------------------------------------------------------------------------
(* Properties *)

Range(seq) == {seq[i] : i \in 1..Len(seq)}

\* find_packages_to_delete has returned in the backup handler
BackupSelected == handler = "backup" /\ pc \in {"confirm", "deleting", "done"}

\* the entries of the deletion set that come from one group
Contribution(pkgs) == {i \in 1..Len(to_delete) : to_delete[i] \in Range(pkgs)}

\* record identity: filename and location
SameFile(p, q) ==
    /\ Get(p, "filename") = Get(q, "filename")
    /\ Get(p, "location") = Get(q, "location")

\* find_latest_package returns for the group (no comparison raises)
Returns(pkgs) == find_latest_package_exc(pkgs) = "none"

\* C1: after find_packages_to_delete, the record find_latest_package returns
\* for a group is not in the deletion set, and every group keeps at least
\* one member out of the deletion set.
C1_LatestRetained ==
    BackupSelected =>
        \A g \in 1..Len(grouped) :
            LET pkgs == grouped[g].pkgs
                lat == find_latest_package(pkgs)
            IN /\ Returns(pkgs) => lat \notin Range(to_delete)
               /\ \E k \in 1..Len(pkgs) : pkgs[k] \notin Range(to_delete)

C1_Witness ==
    /\ BackupSelected
    /\ to_delete # <<>>
    /\ \E g \in 1..Len(grouped) :
          /\ Len(grouped[g].pkgs) > 1
          /\ Returns(grouped[g].pkgs)
          /\ find_latest_package(grouped[g].pkgs) # None
          /\ Contribution(grouped[g].pkgs) # {}

\* C2: a group of more than one member whose latest is not None puts every
\* member that is another file than latest (filename+location) in the
\* deletion set, also one whose version fields equal those of latest, and so
\* contributes exactly (group size - 1) entries.
C2_AllButLatest ==
    BackupSelected =>
        \A g \in 1..Len(grouped) :
            LET pkgs == grouped[g].pkgs
                lat == find_latest_package(pkgs)
            IN (Len(pkgs) > 1 /\ Returns(pkgs) /\ lat # None) =>
                  /\ \A k \in 1..Len(pkgs) :
                        ~SameFile(pkgs[k], lat) => pkgs[k] \in Range(to_delete)
                  /\ Cardinality(Contribution(pkgs)) = Len(pkgs) - 1

C2_Witness ==
    /\ BackupSelected
    /\ \E g \in 1..Len(grouped) :
          LET pkgs == grouped[g].pkgs
              lat == find_latest_package(pkgs)
          IN /\ Len(pkgs) > 1
             /\ Returns(pkgs)
             /\ lat # None
             /\ \E k \in 1..Len(pkgs) :
                   /\ ~SameFile(pkgs[k], lat)
                   /\ CompareObj(pkgs[k]) = CompareObj(lat)
                   /\ pkgs[k] \in Range(to_delete)

\* C3: a group whose members all have an empty or missing version or release
\* contributes nothing to the deletion set.
C3_ConservativeSkip ==
    BackupSelected =>
        \A g \in 1..Len(grouped) :
            LET pkgs == grouped[g].pkgs
            IN (\A k \in 1..Len(pkgs) : LacksVersion(pkgs[k])) => Contribution(pkgs) = {}

C3_Witness ==
    /\ BackupSelected
    /\ \E g \in 1..Len(grouped) :
          /\ Len(grouped[g].pkgs) > 1
          /\ \A k \in 1..Len(grouped[g].pkgs) : LacksVersion(grouped[g].pkgs[k])

\* C4: a group with exactly one member contributes nothing to the deletion
\* set, whatever the fields of the member.
C4_SingletonKept ==
    BackupSelected =>
        \A g \in 1..Len(grouped) :
            Len(grouped[g].pkgs) = 1 => Contribution(grouped[g].pkgs) = {}

C4_Witness ==
    /\ BackupSelected
    /\ to_delete # <<>>
    /\ \E g \in 1..Len(grouped) :
          /\ Len(grouped[g].pkgs) = 1
          /\ LacksVersion(grouped[g].pkgs[1])

\* C5: in both handlers delete_file is called only after the confirmation
\* dialog was answered with yes; after a no, no file is deleted and the
\* result is (0, []).
C5_ConfirmedBeforeDelete ==
    /\ deleted # <<>> => confirm = "yes"
    /\ confirm # "yes" => disk = {FilePath(packages[i]) : i \in 1..Len(packages)}
    /\ confirm = "no" =>
          /\ pc = "done"
          /\ deleted = <<>>
          /\ success_count = 0
          /\ failed_files = <<>>

C5_Witness ==
    /\ confirm = "yes"
    /\ deleted # <<>>
    /\ disk # {FilePath(packages[i]) : i \in 1..Len(packages)}

\* C6: in both handlers a package is proposed for deletion only if a
\* retained package has the same name and the same arch.
C6_SameNameAndArch ==
    pc \in {"confirm", "deleting"} =>
        \A i \in 1..Len(to_delete) :
            \E k \in 1..Len(packages) :
                /\ packages[k] \notin Range(to_delete)
                /\ GroupKey(packages[k]) = GroupKey(to_delete[i])

\* the records carry epoch, version and release
AllPresent(pkg) == {"epoch", "pkgver", "relver"} \subseteq DOMAIN pkg

\* C7: compare_versions is transitive over three parsed records: if
\* compare(a,b) and compare(b,c) are not GREATER, compare(a,c) is not GREATER.
C7_Transitive ==
    (cmpRes # NotRun /\ Len(cmpArgs) = 3) =>
        ((cmpRes[1][2].ret # 1 /\ cmpRes[2][3].ret # 1) => cmpRes[1][3].ret # 1)

\* C8: compare_versions is antisymmetric on records that carry epoch, version
\* and release: GREATER one way iff LESS the other way, EQUAL iff EQUAL.
C8_Antisymmetric ==
    (cmpRes # NotRun /\ AllPresent(cmpArgs[1]) /\ AllPresent(cmpArgs[2])) =>
        LET r12 == cmpRes[1][2].ret
            r21 == cmpRes[2][1].ret
        IN /\ r12 = 1 <=> r21 = -1
           /\ r12 = 0 <=> r21 = 0
           /\ ~(r12 = -1 /\ r21 = -1)
           /\ ~(r12 = 1 /\ r21 = 1)

\* the record with the empty string for every field it lacks
WithDefaults(pkg) ==
    [k \in {"epoch", "pkgver", "relver"} |-> IF k \in DOMAIN pkg THEN pkg[k] ELSE <<>>]

\* C9: compare_versions never raises and returns -1, 0 or 1; a missing
\* epoch, version or release counts as the empty string.
C9_TotalNeverRaises ==
    cmpRes # NotRun =>
        \A i \in DOMAIN cmpArgs : \A j \in DOMAIN cmpArgs :
            /\ cmpRes[i][j].exc = "none"
            /\ cmpRes[i][j].ret \in {-1, 0, 1}
            /\ cmpRes[i][j] = compare_versions(WithDefaults(cmpArgs[i]), WithDefaults(cmpArgs[j]))

\* C10: for a group of records with non-empty version and release, no member
\* compares GREATER than the record find_latest_package and find_latest return.
C10_LatestIsMaximum ==
    (\A k \in 1..Len(packages) : ~LacksVersion(packages[k])) =>
        /\ (latest # NotRun /\ latest # None) =>
              \A k \in 1..Len(packages) :
                  compare_versions(CompareObj(packages[k]), CompareObj(latest)).ret # 1
        /\ (vc_latest # NotRun /\ packages # <<>>) =>
              /\ vc_latest.exc = "none"
              /\ \A k \in 1..Len(packages) :
                    compare_versions(packages[k], vc_latest.ret).ret # 1

\* the record has a non-empty version and a non-empty release
Complete(pkg) ==
    /\ Truthy(Or(Get(pkg, "pkgver"), Get(pkg, "version")))
    /\ Truthy(Or(Get(pkg, "relver"), Get(pkg, "pkgrel")))

\* C11: find_latest_package returns None exactly when the input list is
\* empty or no member has a non-empty version and release; otherwise it
\* returns one of the input records, which has a non-empty version and release.
C11_NoneExactlyWhenNoValid ==
    /\ raised = "none"
    /\ latest # NotRun =>
          /\ latest = None <=>
                (packages = <<>> \/ \A k \in 1..Len(packages) : ~Complete(packages[k]))
          /\ latest # None => (latest \in Range(packages) /\ Complete(latest))

C11_Witness ==
    /\ latest # NotRun
    /\ latest # None
    /\ \E k \in 1..Len(packages) : ~Complete(packages[k])
    /\ \E k \in 1..Len(packages) : Complete(packages[k]) /\ packages[k] # latest

\* name and arch of a record
NameOf(pkg) == Or(Get(pkg, "pkgname"), Get(pkg, "name"))
ArchOf(pkg) == Get(pkg, "arch")
HasIdentity(pkg) == Truthy(NameOf(pkg)) /\ Truthy(ArchOf(pkg))

RECURSIVE SumSizes(_)
SumSizes(g) == IF g = <<>> THEN 0 ELSE Len(Head(g).pkgs) + SumSizes(Tail(g))

\* group_packages_by_name_and_arch has returned and the list is as it was
BackupGrouped == handler = "backup" /\ pc \in {"grouped", "confirm"}

\* C12: group_packages_by_name_and_arch partitions its input: the group of a
\* key holds, in input order, exactly the records with that non-empty name
\* and non-empty arch; every such record is in exactly one group; a record
\* missing name or arch is in no group; skipped count plus the group sizes
\* is the number of input records.
C12_GroupPartition ==
    BackupGrouped =>
        /\ \A g \in 1..Len(grouped) :
              /\ grouped[g].pkgs # <<>>
              /\ grouped[g].pkgs =
                    SelectSeq(packages, LAMBDA p :
                        HasIdentity(p) /\ <<NameOf(p), ArchOf(p)>> = grouped[g].key)
        /\ \A g, h \in 1..Len(grouped) : grouped[g].key = grouped[h].key => g = h
        /\ \A i \in 1..Len(packages) :
              LET holders == {g \in 1..Len(grouped) : packages[i] \in Range(grouped[g].pkgs)}
              IN IF HasIdentity(packages[i])
                 THEN Cardinality(holders) = 1
                 ELSE holders = {}
        /\ skipped_count + SumSizes(grouped) = Len(packages)

C12_Witness ==
    /\ BackupGrouped
    /\ skipped_count > 0
    /\ \E g \in 1..Len(grouped) : Len(grouped[g].pkgs) > 1

\* the stem of the parsed filename and its segments
Stem == SubSeq(Basename(filename), 1, Len(Basename(filename)) - Len(PkgExt))
StemParts == Split(Stem, "-")

\* s is digits or digits.digits
StrictRelease(s) ==
    \/ IsDigit(s)
    \/ \E i \in 2..(Len(s) - 1) :
          /\ s[i] = "."
          /\ IsDigit(SubSeq(s, 1, i - 1))
          /\ IsDigit(SubSeq(s, i + 1, Len(s)))

Parsed == pc = "done" /\ filename # <<>>
ParsedRecord == Parsed /\ parsed.exc = "none" /\ parsed.ret # None

\* C13: parse_filename yields no record when the filename does not end in
\* .pkg.tar.zst, or its stem has fewer than 4 '-'-separated segments, or the
\* second-to-last segment is not digits or digits.digits.
C13_Unparseable ==
    Parsed =>
        ((\/ ~EndsWith(filename, PkgExt)
          \/ Len(StemParts) < 4
          \/ ~StrictRelease(StemParts[Len(StemParts) - 1]))
         => parsed = Ret(None))

\* C14: every record parse_filename returns has a non-empty name and a
\* non-empty arch, also for a stem whose last segment is empty.
C14_NameArchNonEmpty ==
    ParsedRecord =>
        /\ Truthy(Get(parsed.ret, "pkgname"))
        /\ Truthy(Get(parsed.ret, "arch"))

\* C15: every record parse_filename returns has an epoch that is a non-empty
\* string of digits, "0" when the stem has no ':'.
C15_EpochNumeric ==
    ParsedRecord =>
        /\ IsDigit(Get(parsed.ret, "epoch"))
        /\ ~Contains(Stem, ":") => Get(parsed.ret, "epoch") = <<"0">>

\* well-formed tuples: no '-' in epoch, release and arch, no ':' in name
RtTuples ==
    [name    : {<<"a">>, <<"a", "-", "a">>},
     epoch   : {None, <<"2">>},
     version : {<<"1">>, <<"1", ".", "0">>, <<"1", "-", "1">>, <<"a">>},
     release : {<<"1">>, <<"1", ".", "0">>},
     arch    : {<<"a">>, <<"X">>}]

\* name-[epoch:]version-release-arch.pkg.tar.zst
Synth(t) ==
    t.name \o <<"-">> \o (IF Truthy(t.epoch) THEN t.epoch \o <<":">> ELSE <<>>)
        \o t.version \o <<"-">> \o t.release \o <<"-">> \o t.arch \o PkgExt

\* C16: parsing the filename made of a well-formed tuple returns the name,
\* version, release and arch of the tuple, and its epoch ("0" when omitted).
C16_RoundTrip ==
    Parsed =>
        \A t \in RtTuples :
            filename = Synth(t) =>
                /\ ParsedRecord
                /\ Get(parsed.ret, "pkgname") = t.name
                /\ Get(parsed.ret, "epoch") = Or(t.epoch, <<"0">>)
                /\ Get(parsed.ret, "pkgver") = t.version
                /\ Get(parsed.ret, "relver") = t.release
                /\ Get(parsed.ret, "arch") = t.arch

\* C17: the core never raises: parse_filename returns a record or None for
\* every filename, and group_packages_by_name_and_arch, find_latest_package
\* and find_packages_to_delete return for every list of records with empty
\* or absent name, arch, epoch, version or release.
C17_CoreNeverRaises ==
    /\ raised = "none"
    /\ Parsed => parsed.exc = "none"
    /\ (pc = "done" /\ filename = <<>>) =>
          \A g \in 1..Len(grouped) : find_latest_package_exc(grouped[g].pkgs) = "none"

C17_Witness ==
    /\ pc = "done"
    /\ filename = <<>>
    /\ to_delete # <<>>
    /\ skipped_count > 0
    /\ \E k \in 1..Len(packages) :
          "epoch" \notin DOMAIN packages[k] /\ packages[k] \in Range(to_delete)

\* load_scan_results has returned what save_scan_results wrote
SavedAndLoaded == pc = "loaded" /\ raised = "none" /\ scan_file.exists

SixFields == {"pkgname", "epoch", "pkgver", "relver", "arch", "location"}

\* C18: after save_scan_results and load_scan_results every package has the
\* same name, epoch, version, release, arch, location and filename as before
\* saving.
C18_SevenFieldsRoundTrip ==
    SavedAndLoaded =>
        /\ Len(loaded) = Len(packages)
        /\ \A i \in 1..Len(packages) :
              \A k \in SixFields \cup {"filename"} :
                  Get(loaded[i], k) = Get(packages[i], k)

\* C18 as amended: name, epoch, version, release, arch and location are the
\* same as before saving; the filename is removed by save_scan_results and
\* absent after loading.
C18_SixFieldsRoundTrip ==
    SavedAndLoaded =>
        /\ Len(loaded) = Len(packages)
        /\ \A i \in 1..Len(packages) :
              /\ \A k \in SixFields : Get(loaded[i], k) = Get(packages[i], k)
              /\ "filename" \notin DOMAIN loaded[i]

C18_Witness ==
    /\ SavedAndLoaded
    /\ Len(loaded) > 1
    /\ \E i \in 1..Len(packages) :
          /\ Contains(packages[i]["pkgname"], "\"")
          /\ scan_file.text[i]["pkgname"] # <<"\"">> \o packages[i]["pkgname"] \o <<"\"">>

\* the two records carry epoch, version and release, and compare_versions ran
Compared == cmpRes # NotRun /\ AllPresent(cmpArgs[1]) /\ AllPresent(cmpArgs[2])

\* two components that are the same text, or the same integer written differently
SameNumber(v1, v2) == v1 = v2 \/ (IsDigit(v1) /\ IsDigit(v2) /\ ToInt(v1) = ToInt(v2))

\* dotted texts whose components are pairwise the same number
NumEquivalent(s, t) ==
    LET p == Split(s, ".")
        q == Split(t, ".")
    IN Len(p) = Len(q) /\ \A i \in 1..Len(p) : SameNumber(p[i], q[i])

\* C19: all-digit components that denote the same integer tie: two records
\* with the same epoch whose versions and releases differ only in leading
\* zeros compare EQUAL.
C19_LeadingZerosTie ==
    (/\ Compared
     /\ cmpArgs[1]["epoch"] = cmpArgs[2]["epoch"]
     /\ NumEquivalent(cmpArgs[1]["pkgver"], cmpArgs[2]["pkgver"])
     /\ NumEquivalent(cmpArgs[1]["relver"], cmpArgs[2]["relver"]))
    => cmpRes[1][2].ret = 0

\* the first position at which the components of two dotted texts differ, 0
\* when one is a prefix of the other
FirstDiff(p, q) ==
    LET diff == {i \in 1..Min(Len(p), Len(q)) : p[i] # q[i]}
    IN IF diff = {} THEN 0 ELSE CHOOSE i \in diff : \A k \in diff : i <= k

\* C20: for two records with the same epoch, the first position at which the
\* version components differ decides the result, by integer order when both
\* components are all-digit and by string order otherwise, whatever the later
\* components and the release are.
C20_FirstDifferenceDecides ==
    (Compared /\ cmpArgs[1]["epoch"] = cmpArgs[2]["epoch"]) =>
        LET p == Split(cmpArgs[1]["pkgver"], ".")
            q == Split(cmpArgs[2]["pkgver"], ".")
            i == FirstDiff(p, q)
            r == cmpRes[1][2].ret
        IN i # 0 =>
              IF IsDigit(p[i]) /\ IsDigit(q[i])
              THEN /\ r = 1 <=> ToInt(p[i]) > ToInt(q[i])
                   /\ r = -1 <=> ToInt(p[i]) < ToInt(q[i])
              ELSE /\ r = 1 <=> StrGT(p[i], q[i])
                   /\ r = -1 <=> StrGT(q[i], p[i])

\* both records carry an epoch, the two epochs differ, and compare_versions ran
EpochsDiffer ==
    /\ cmpRes # NotRun
    /\ "epoch" \in DOMAIN cmpArgs[1]
    /\ "epoch" \in DOMAIN cmpArgs[2]
    /\ cmpArgs[1]["epoch"] # cmpArgs[2]["epoch"]

\* C21: when the epochs differ, compare_versions returns GREATER if the first
\* epoch is the greater string and LESS otherwise, whatever the versions and
\* releases are (also when they are absent); epoch "9" beats epoch "10".
C21_EpochAsString ==
    EpochsDiffer =>
        /\ cmpRes[1][2] = Ret(IF StrGT(cmpArgs[1]["epoch"], cmpArgs[2]["epoch"]) THEN 1 ELSE -1)
        /\ (cmpArgs[1]["epoch"] = <<"9">> /\ cmpArgs[2]["epoch"] = <<"1", "0">>)
              => cmpRes[1][2].ret = 1

C21_Witness ==
    /\ EpochsDiffer
    /\ cmpArgs[1]["epoch"] = <<"9">>
    /\ cmpArgs[2]["epoch"] = <<"1", "0">>
    /\ Get(cmpArgs[1], "pkgver") = <<"0">>
    /\ Get(cmpArgs[2], "pkgver") = <<"1", "1">>
    /\ cmpRes[1][2].ret = 1

\* p is a proper prefix of q
IsProperPrefix(p, q) == Len(p) < Len(q) /\ SubSeq(q, 1, Len(p)) = p

\* both records carry the same epoch and a version, and compare_versions ran
SameEpochWithVersions ==
    /\ cmpRes # NotRun
    /\ \A i \in 1..2 : {"epoch", "pkgver"} \subseteq DOMAIN cmpArgs[i]
    /\ cmpArgs[1]["epoch"] = cmpArgs[2]["epoch"]

\* C22: with identical epochs, when the component list of one version is a
\* proper prefix of the other's, the record with the longer list is GREATER
\* whatever the two releases are (also when one is absent): the release is
\* not consulted.
C22_LongerVersionWins ==
    SameEpochWithVersions =>
        (IsProperPrefix(Split(cmpArgs[1]["pkgver"], "."), Split(cmpArgs[2]["pkgver"], "."))
            => /\ cmpRes[1][2] = Ret(-1)
               /\ cmpRes[2][1] = Ret(1))

C22_Witness ==
    /\ SameEpochWithVersions
    /\ IsProperPrefix(Split(cmpArgs[1]["pkgver"], "."), Split(cmpArgs[2]["pkgver"], "."))
    /\ Get(cmpArgs[1], "relver") = <<"1">>
    /\ Get(cmpArgs[2], "relver") = <<"0", "1">>
    /\ cmpArgs[1]["pkgver"] = <<"1">>
    /\ cmpRes[2][1].ret = 1

\* C23: find_latest_package and find_latest break ties first-wins: of the
\* members that compare EQUAL to the returned record, the returned record is
\* the earliest of the input list.
C23_FirstWinsTies ==
    /\ (latest # NotRun /\ latest # None) =>
          \A j \in 1..Len(packages) : \A k \in 1..Len(packages) :
              (packages[j] = latest /\ k < j /\ Complete(packages[k])) =>
                  compare_versions(CompareObj(packages[k]), CompareObj(latest)).ret # 0
    /\ (vc_latest # NotRun /\ packages # <<>> /\ vc_latest.exc = "none") =>
          \A j \in 1..Len(packages) : \A k \in 1..Len(packages) :
              (packages[j] = vc_latest.ret /\ k < j) =>
                  compare_versions(packages[k], vc_latest.ret) # Ret(0)

\* the segments of the stem that precede release and arch
LeadingParts == SubSeq(StemParts, 1, Len(StemParts) - 2)

\* the segment starts with a digit or contains ':'
IsMarker(seg) == (Len(seg) > 0 /\ seg[1] \in Digits) \/ (\E i \in 1..Len(seg) : seg[i] = ":")

\* k is the first marker segment of the leading segments
FirstMarkerAt(k) ==
    /\ k \in 1..Len(LeadingParts)
    /\ IsMarker(LeadingParts[k])
    /\ \A i \in 1..(k - 1) : ~IsMarker(LeadingParts[i])

\* the version portion a record was built from: epoch:version, or the
\* version alone under the default epoch
VersionPortionIs(rec, text) ==
    IF \E i \in 1..Len(text) : text[i] = ":"
    THEN rec["epoch"] \o <<":">> \o rec["pkgver"] = text
    ELSE rec["epoch"] = <<"0">> /\ rec["pkgver"] = text

\* C24: when at least one leading segment precedes the first marker segment,
\* the name of the returned record is the '-'-join of the segments before the
\* marker and its version portion is the '-'-join of the segments from the
\* marker onward; a record is returned whenever that name has an
\* alphanumeric character.
C24_NameVersionBoundary ==
    (Parsed /\ EndsWith(filename, PkgExt) /\ Len(StemParts) >= 4) =>
        \A k \in 2..Len(LeadingParts) :
            FirstMarkerAt(k) =>
                LET name == Join(SubSeq(LeadingParts, 1, k - 1), "-")
                    version == Join(SubSeq(LeadingParts, k, Len(LeadingParts)), "-")
                IN /\ parsed.exc = "none"
                   /\ parsed.ret # None =>
                         /\ parsed.ret["pkgname"] = name
                         /\ VersionPortionIs(parsed.ret, version)
                   /\ (MatchRelease(StemParts[Len(StemParts) - 1])
                       /\ \E i \in 1..Len(name) : name[i] \in AlNum)
                         => parsed.ret # None

C24_Witness ==
    /\ ParsedRecord
    /\ FirstMarkerAt(2)
    /\ Len(LeadingParts) = 3
    /\ IsMarker(LeadingParts[3])
    /\ parsed.ret["epoch"] = <<"2">>
    /\ parsed.ret["pkgver"] = <<"1", "-", "2", ":", "1">>
    /\ parsed.ret["pkgname"] = <<"a">>

\* the stem has the shape of steps 1-3: extension, four segments, release
WellShaped ==
    /\ Parsed
    /\ EndsWith(filename, PkgExt)
    /\ Len(StemParts) >= 4
    /\ MatchRelease(StemParts[Len(StemParts) - 1])

\* C25: when the name portion (the segments before the first marker segment)
\* is empty or has no alphanumeric character, the name of the record is the
\* longest leading match of [a-zA-Z0-9][a-zA-Z0-9+._-]* in the stem, and no
\* record is returned when the stem has no such match.
C25_NameFallback ==
    WellShaped =>
        \A k \in 1..Len(LeadingParts) :
            (FirstMarkerAt(k) /\ AllSpecial(Join(SubSeq(LeadingParts, 1, k - 1), "-"))) =>
                /\ parsed.exc = "none"
                /\ IF NameSearch(Stem) = None
                   THEN parsed.ret = None
                   ELSE parsed.ret # None /\ parsed.ret["pkgname"] = NameSearch(Stem)

\* C26: in every record parse_filename returns, arch is the last segment of
\* the stem and release is the second-to-last segment.
C26_ArchReleaseFromRight ==
    ParsedRecord =>
        /\ parsed.ret["arch"] = StemParts[Len(StemParts)]
        /\ parsed.ret["relver"] = StemParts[Len(StemParts) - 1]

\* C27: after find_packages_to_delete, a member without a version or a
\* release, in a group that has a member with both, is in the deletion set.
C27_IncompleteMemberDeleted ==
    BackupSelected =>
        \A g \in 1..Len(grouped) :
            LET pkgs == grouped[g].pkgs
            IN \A k \in 1..Len(pkgs) :
                  (~Complete(pkgs[k]) /\ \E j \in 1..Len(pkgs) : Complete(pkgs[j]))
                      => pkgs[k] \in Range(to_delete)

\* execute_deletion is running or has returned in the backup handler
Deleting == handler = "backup" /\ confirm = "yes" /\ pc \in {"deleting", "done"}

\* C28: execute_deletion goes through its list once, in list order, whatever
\* the outcome of each deletion: after i packages the attempts are the first
\* i packages and success_count + len(failed_files) = i; on return i is the
\* number of packages passed in.
C28_EveryPackageOnce ==
    Deleting =>
        /\ del_idx \in 1..(Len(to_delete) + 1)
        /\ deleted = SubSeq(to_delete, 1, del_idx - 1)
        /\ success_count + Len(failed_files) = del_idx - 1
        /\ pc = "done" =>
              /\ deleted = to_delete
              /\ success_count + Len(failed_files) = Len(to_delete)

C28_Witness ==
    /\ Deleting
    /\ pc = "done"
    /\ Len(to_delete) = 2
    /\ success_count = 1
    /\ failed_files = <<FilePath(to_delete[1])>>
    /\ FilePath(to_delete[1]) \in disk

\* C29: for two records that carry epoch, version and release,
\* compare_versions returns EQUAL exactly when the three strings of the one
\* are identical to those of the other; a record compared with itself is EQUAL.
C29_EqualIffIdentical ==
    Compared =>
        /\ \A i \in 1..2 : \A j \in 1..2 :
              cmpRes[i][j] = Ret(0) <=>
                  /\ cmpArgs[i]["epoch"] = cmpArgs[j]["epoch"]
                  /\ cmpArgs[i]["pkgver"] = cmpArgs[j]["pkgver"]
                  /\ cmpArgs[i]["relver"] = cmpArgs[j]["relver"]
        /\ cmpRes[1][1] = Ret(0)
        /\ cmpRes[2][2] = Ret(0)

C29_Witness ==
    /\ Compared
    /\ cmpArgs[1]["epoch"] = cmpArgs[2]["epoch"]
    /\ cmpArgs[1]["pkgver"] = cmpArgs[2]["pkgver"]
    /\ cmpArgs[1]["relver"] = <<"1">>
    /\ cmpArgs[2]["relver"] = <<"0", "1">>
    /\ cmpRes[1][2] # Ret(0)
    /\ cmpRes[1][1] = Ret(0)

\* backup_newer_versions is running or has ended
NewerRun == handler = "newer" /\ pc \in {"newer_loop", "done"}

\* the name of a backup-list entry, under either field name
ExistingName(ep) == Or(Get(ep, "pkgname"), Get(ep, "name"))

\* e is the first entry of the backup list with the name
FirstWithName(e, name) ==
    /\ e \in 1..Len(existing_packages)
    /\ ExistingName(existing_packages[e]) = name
    /\ \A i \in 1..(e - 1) : ExistingName(existing_packages[i]) # name

\* C30: in a run of backup_newer_versions a cache package is handed to
\* copy_file at most once, and only if no earlier package of the run has its
\* name and it compares GREATER than the first backup-list entry with its
\* name; so a package that is equal or older, whose name is absent from the
\* backup list, or whose name was handled earlier is never copied.
C30_CopiedOnlyIfNewer ==
    NewerRun =>
        /\ success_count <= Len(copied)
        /\ \A c \in 1..Len(copied) : \A d \in 1..Len(copied) : copied[c] = copied[d] => c = d
        /\ \A k \in 1..Len(packages) :
              packages[k] \in Range(copied) =>
                  /\ k < upd_idx
                  /\ "pkgname" \in DOMAIN packages[k]
                  /\ \A j \in 1..(k - 1) : Get(packages[j], "pkgname") # packages[k]["pkgname"]
                  /\ \E e \in 1..Len(existing_packages) :
                        /\ FirstWithName(e, packages[k]["pkgname"])
                        /\ compare_versions(
                              NewerCompareObj(packages[k]["pkgname"], packages[k]),
                              NewerCompareObj(packages[k]["pkgname"], existing_packages[e]))
                           = Ret(1)

C30_Witness ==
    /\ NewerRun
    /\ pc = "done"
    /\ Len(packages) = 3
    /\ Len(existing_packages) = 2
    /\ copied = <<packages[2]>>
    /\ Get(packages[1], "pkgname") = B
    /\ Get(packages[2], "pkgname") = A
    /\ Get(packages[3], "pkgname") = A
    /\ Get(packages[1], "pkgver") = <<"3">>
    /\ Get(packages[2], "pkgver") = <<"3">>
    /\ Get(packages[3], "pkgver") = <<"3">>
    /\ Get(existing_packages[1], "pkgver") = <<"2">>
    /\ Get(existing_packages[2], "pkgver") = <<"3">>

====
